---- MODULE Spec2Model ----
(***************************************************************************)
(* Model of the CRX Grabber extension-fetch proxy: the derived-archive     *)
(* handler (src/src/app/api/crx/[id]/route.ts) and the raw-container       *)
(* handler (src/src/app/detail/[...slug]/page.tsx, lines 40-157).          *)
(*                                                                         *)
(* Strings are sequences of character codes.  A byte buffer is a record    *)
(* [head, len]: its first Len(head) bytes are head, the remaining          *)
(* len - Len(head) bytes are zero.  This keeps a 20 MiB body representable *)
(* while every byte the parser can look at is an explicit value.           *)
(***************************************************************************)
EXTENDS Integers, Sequences, FiniteSets, TLC

VARIABLES
  pin,       \* how the buffer under test was built (parser specification)
  pbuf,      \* the buffer handed to stripCrxHeader
  presult,   \* what stripCrxHeader returned
  now,       \* Date.now(), milliseconds
  ticks,     \* number of clock advances so far
  calls,     \* number of isRateLimited calls so far
  rateMap,   \* endpoint -> the module's rateMap (key -> {count, resetAt})
  sweepAt,   \* endpoint -> earliest time of the next setInterval callback
  req,       \* handler instance -> the request it serves
  win,       \* endpoint -> key -> the fixed window the key is in (history)
  unswept    \* endpoint -> the module's rateMap had its sweep never run (history)

pvars == <<pin, pbuf, presult>>

hvars == <<now, ticks, calls, rateMap, sweepAt, req, win, unswept>>

vars == <<pvars, hvars>>

----------------------------------------------------------------------------
(* Program constants *)

\* 20 * 1024 * 1024
MAX_CRX_SIZE == 20971520

\* bound of the fallback scan, Math.min(buf.byteLength, 1024)
SCAN_LIMIT == 1024

RATE_WINDOW_MS == 60000

RATE_LIMIT == 5

\* /^[a-z]{32}$/
ID_LENGTH == 32

----------------------------------------------------------------------------
(* Byte buffers (Uint8Array / DataView) *)

Min(a, b) == IF a < b THEN a ELSE b

\* the value of an out-of-range typed-array index (JavaScript undefined)
Undefined == -1

Buf(head, len) == [head |-> head, len |-> len]

Lit(bytes) == Buf(bytes, Len(bytes))

byteLength(buf) == buf.len

\* buf[i], i >= 0
At(buf, i) ==
  IF i < Len(buf.head) THEN buf.head[i + 1]
  ELSE IF i < buf.len THEN 0
  ELSE Undefined

\* buf.subarray(begin): a view of the same bytes, begin clamped to the length
subarray(buf, begin) ==
  LET b == Min(begin, buf.len)
  IN  Buf(IF b < Len(buf.head) THEN SubSeq(buf.head, b + 1, Len(buf.head)) ELSE << >>,
          buf.len - b)

\* buf.subarray(0, end)
Prefix(buf, end) ==
  LET e == Min(end, buf.len)
  IN  Buf(SubSeq(buf.head, 1, Min(e, Len(buf.head))), e)

\* literal bytes followed by a buffer
Concat(bytes, buf) == Buf(bytes \o buf.head, Len(bytes) + buf.len)

\* byte-for-byte equality of two buffers
SameBytes(a, b) ==
  /\ a.len = b.len
  /\ \A i \in 0 .. (Min(a.len, Len(a.head) + Len(b.head)) - 1) : At(a, i) = At(b, i)

\* DataView.getUint32(off, true): little-endian; RangeError when the four
\* bytes do not lie inside the view
getUint32(buf, off) ==
  IF off + 4 > buf.len
  THEN [ok |-> FALSE, val |-> 0]
  ELSE [ok |-> TRUE,
        val |-> At(buf, off) + 256 * At(buf, off + 1)
                + 65536 * At(buf, off + 2) + 16777216 * At(buf, off + 3)]

----------------------------------------------------------------------------
(* stripCrxHeader *)

Null == [kind |-> "null", offset |-> 0, data |-> Lit(<< >>)]

Thrown == [kind |-> "RangeError", offset |-> 0, data |-> Lit(<< >>)]

View(buf, off) == [kind |-> "view", offset |-> off, data |-> subarray(buf, off)]

\* a mutation of ZipAt: an offset equal to the length is accepted (<=)
ZipAt_Inclusive(buf, zipOffset) ==
  IF zipOffset <= byteLength(buf) THEN View(buf, zipOffset) ELSE Null

\* if (zipOffset < buf.byteLength) return buf.subarray(zipOffset); return null
ZipAt(buf, zipOffset) ==
  IF zipOffset < byteLength(buf) THEN View(buf, zipOffset) ELSE Null

HasCrxMagic(buf) ==
  At(buf, 0) = 67 /\ At(buf, 1) = 114 /\ At(buf, 2) = 50 /\ At(buf, 3) = 52

IsZipMagicAt(buf, i) ==
  At(buf, i) = 80 /\ At(buf, i + 1) = 75 /\ At(buf, i + 2) = 3 /\ At(buf, i + 3) = 4

\* a mutation of ScanForZip: the scan runs to the end of the buffer
ScanForZip_WholeBuffer(buf) ==
  LET hits == {i \in 0 .. (byteLength(buf) - 1) : IsZipMagicAt(buf, i)}
  IN  IF hits = {} THEN Null
      ELSE View(buf, CHOOSE i \in hits : \A j \in hits : i <= j)

\* for (let i = 0; i < Math.min(buf.byteLength, 1024); i++) ... return buf.subarray(i)
ScanForZip(buf) ==
  LET hits == {i \in 0 .. (Min(byteLength(buf), SCAN_LIMIT) - 1) : IsZipMagicAt(buf, i)}
  IN  IF hits = {} THEN Null
      ELSE View(buf, CHOOSE i \in hits : \A j \in hits : i <= j)

\* a mutation of V3ZipOffset: the 4-byte header_size field is not counted
V3ZipOffset_SkipsLengthField(headerSize) == 8 + headerSize

\* zipOffset = 12 + headerSize
V3ZipOffset(headerSize) == 12 + headerSize

\* a mutation of V2ZipOffset: the signature is not skipped
V2ZipOffset_KeepsSignature(pkLen, sigLen) == 16 + pkLen

\* zipOffset = 16 + pkLen + sigLen
V2ZipOffset(pkLen, sigLen) == 16 + pkLen + sigLen

stripCrxHeader(buf) ==
  IF HasCrxMagic(buf)
  THEN LET version == getUint32(buf, 4)
       IN  IF ~version.ok THEN Thrown
           ELSE IF version.val = 3
           THEN LET headerSize == getUint32(buf, 8)
                IN  IF ~headerSize.ok THEN Thrown
                    ELSE ZipAt(buf, V3ZipOffset(headerSize.val))
           ELSE IF version.val = 2
           THEN LET pkLen  == getUint32(buf, 8)
                    sigLen == getUint32(buf, 12)
                IN  IF ~pkLen.ok \/ ~sigLen.ok THEN Thrown
                    ELSE ZipAt(buf, V2ZipOffset(pkLen.val, sigLen.val))
           ELSE Null
  ELSE ScanForZip(buf)

----------------------------------------------------------------------------
(* Parser inputs: the container layouts of the doc comment of stripCrxHeader *)

\* longest truncation of an input that is tried (bytes kept)
MaxCut == 17

CrxMagic == <<67, 114, 50, 52>>

ZipMagic == <<80, 75, 3, 4>>

\* uint32, little-endian
LE32(n) ==
  <<n % 256, (n \div 256) % 256, (n \div 65536) % 256, (n \div 16777216) % 256>>

Fill(n, byte) == [i \in 1 .. n |-> byte]

\* "Cr24" | version=3 | header_size | header | ZIP
V3Container(headerLen, payload) ==
  Concat(CrxMagic \o LE32(3) \o LE32(headerLen) \o Fill(headerLen, 170), payload)

\* "Cr24" | version=2 | pk_len | sig_len | pk | sig | ZIP
V2Container(pkLen, sigLen, payload) ==
  Concat(CrxMagic \o LE32(2) \o LE32(pkLen) \o LE32(sigLen)
           \o Fill(pkLen, 171) \o Fill(sigLen, 172), payload)

\* "Cr24" | version | rest
VersionedContainer(version, payload) ==
  Concat(CrxMagic \o LE32(version), payload)

\* no magic: junk bytes, then the rest
BareInput(junkLen, payload) == Concat(Fill(junkLen, 7), payload)

Payloads ==
  { Lit(<< >>),
    Lit(<<0>>),
    Lit(ZipMagic),
    Buf(ZipMagic \o <<20>>, 600),
    Lit(ZipMagic \o <<9>> \o ZipMagic),
    Lit(CrxMagic \o LE32(3) \o LE32(0) \o <<9>>) }

HeaderLens == {0, 1, 16, 4096}

KeyLens == {0, 1, 16}

SigLens == {0, 3, 300}

OtherVersions == {0, 1, 4, 259, 16777218}

JunkLens == {0, 1, 37, 1020, 1021, 1023, 1024, 1030}

ParserInputs ==
  [kind : {"v3"}, a : HeaderLens, b : {0}, payload : Payloads, cut : -1 .. MaxCut]
  \cup [kind : {"v2"}, a : KeyLens, b : SigLens, payload : Payloads, cut : -1 .. MaxCut]
  \cup [kind : {"ver"}, a : OtherVersions, b : {0}, payload : Payloads, cut : {-1}]
  \cup [kind : {"bare"}, a : JunkLens, b : {0}, payload : Payloads, cut : {-1}]

Whole(in) ==
  CASE in.kind = "v3"   -> V3Container(in.a, in.payload)
    [] in.kind = "v2"   -> V2Container(in.a, in.b, in.payload)
    [] in.kind = "ver"  -> VersionedContainer(in.a, in.payload)
    [] in.kind = "bare" -> BareInput(in.a, in.payload)

\* the buffer handed to the parser: the whole input, or its first cut bytes
InputBuffer(in) == IF in.cut < 0 THEN Whole(in) ELSE Prefix(Whole(in), in.cut)

Pending == [kind |-> "pending", offset |-> 0, data |-> Lit(<< >>)]

----------------------------------------------------------------------------
(* Strings: sequences of character codes *)

IsLower(c) == c \in 97 .. 122

IsUpper(c) == c \in 65 .. 90

IsDigit(c) == c \in 48 .. 57

\* String.prototype.toLowerCase on the ASCII range
LowerChar(c) == IF IsUpper(c) THEN c + 32 ELSE c

toLowerCase(s) == [i \in 1 .. Len(s) |-> LowerChar(s[i])]

\* a mutation of ValidId: the pattern is not anchored, /[a-z]{32}/
ValidId_Unanchored(id) ==
  \E k \in 0 .. (Len(id) - ID_LENGTH) : \A i \in 1 .. ID_LENGTH : IsLower(id[k + i])

\* a mutation of ValidId: the pattern carries the i flag, /^[a-z]{32}$/i
ValidId_IgnoreCase(id) ==
  Len(id) = ID_LENGTH /\ \A i \in 1 .. Len(id) : IsLower(id[i]) \/ IsUpper(id[i])

\* /^[a-z]{32}$/.test(id)
ValidId(id) ==
  Len(id) = ID_LENGTH /\ \A i \in 1 .. Len(id) : IsLower(id[i])

\* a request header: absent, or present with a text
NoHeader == [present |-> FALSE, text |-> << >>]

Header(text) == [present |-> TRUE, text |-> text]

IsSpace(c) == c \in {32, 9, 10, 13}

\* s.split(",")[0]
FirstField(s) ==
  LET commas == {i \in 1 .. Len(s) : s[i] = 44}
  IN  IF commas = {} THEN s
      ELSE SubSeq(s, 1, (CHOOSE i \in commas : \A j \in commas : i <= j) - 1)

\* s.trim()
trim(s) ==
  LET solid == {i \in 1 .. Len(s) : ~IsSpace(s[i])}
  IN  IF solid = {} THEN << >>
      ELSE SubSeq(s, CHOOSE i \in solid : \A j \in solid : i <= j,
                     CHOOSE i \in solid : \A j \in solid : i >= j)

\* "unknown"
Unknown == <<117, 110, 107, 110, 111, 119, 110>>

\* a mutation of CallerKey: the element is not trimmed
CallerKey_Untrimmed(xff) ==
  IF ~xff.present THEN Unknown
  ELSE LET ip == FirstField(xff.text)
       IN  IF ip = << >> THEN Unknown ELSE ip

\* request.headers.get("x-forwarded-for")?.split(",")[0]?.trim() || "unknown"
CallerKey(xff) ==
  IF ~xff.present THEN Unknown
  ELSE LET ip == trim(FirstField(xff.text))
       IN  IF ip = << >> THEN Unknown ELSE ip

\* parseInt(text, 10): leading white space, then decimal digits; NaN without a digit
RECURSIVE DigitsValue(_, _, _)
DigitsValue(s, i, acc) ==
  IF i > Len(s) \/ ~IsDigit(s[i]) THEN acc
  ELSE DigitsValue(s, i + 1, 10 * acc + (s[i] - 48))

NaN == [nan |-> TRUE, val |-> 0]

parseInt(s) ==
  LET t == trim(s)
  IN  IF t = << >> \/ ~IsDigit(t[1]) THEN NaN
      ELSE [nan |-> FALSE, val |-> DigitsValue(t, 1, 0)]

\* n.toString() for n >= 0
RECURSIVE toString(_)
toString(n) ==
  IF n < 10 THEN <<48 + n>> ELSE toString(n \div 10) \o <<48 + (n % 10)>>

\* a > b on numbers, false when a is NaN
Greater(a, b) == ~a.nan /\ a.val > b

\* .replace(/[^a-z0-9]+/g, "-")
RECURSIVE HyphenateFrom(_, _)
HyphenateFrom(s, i) ==
  IF i > Len(s) THEN << >>
  ELSE IF IsLower(s[i]) \/ IsDigit(s[i]) THEN <<s[i]>> \o HyphenateFrom(s, i + 1)
  ELSE IF i > 1 /\ ~(IsLower(s[i - 1]) \/ IsDigit(s[i - 1])) THEN HyphenateFrom(s, i + 1)
  ELSE <<45>> \o HyphenateFrom(s, i + 1)

\* .replace(/^-|-$/g, "")
StripHyphens(s) ==
  LET a == IF Len(s) > 0 /\ s[1] = 45 THEN SubSeq(s, 2, Len(s)) ELSE s
  IN  IF Len(a) > 0 /\ a[Len(a)] = 45 THEN SubSeq(a, 1, Len(a) - 1) ELSE a

\* a mutation of SafeName: only the leading hyphen is removed (/^-/)
SafeName_KeepsTrailingHyphen(rawName) ==
  LET s == HyphenateFrom(toLowerCase(rawName), 1)
  IN  IF Len(s) > 0 /\ s[1] = 45 THEN SubSeq(s, 2, Len(s)) ELSE s

\* rawName.toLowerCase().replace(/[^a-z0-9]+/g, "-").replace(/^-|-$/g, "")
SafeName(rawName) == StripHyphens(HyphenateFrom(toLowerCase(rawName), 1))

\* ".zip" and ".crx"
ZipExt == <<46, 122, 105, 112>>

CrxExt == <<46, 99, 114, 120>>

\* safeName ? `${safeName}-${id}.zip` : `${id}.zip`
ZipFilename(rawName, id) ==
  LET safeName == SafeName(rawName)
  IN  IF safeName # << >> THEN safeName \o <<45>> \o id \o ZipExt ELSE id \o ZipExt

\* `${id}.crx`
CrxFilename(id) == id \o CrxExt

\* CRX_URL_TEMPLATE.replace("{ID}", id): the text before {ID}, the id, the text after
NoUrl == [issued |-> FALSE, before |-> "", id |-> << >>, after |-> ""]

CrxUrl(id) ==
  [issued |-> TRUE,
   before |-> "https://clients2.google.com/service/update2/crx?response=redirect&prodversion=131.0.0.0&acceptformat=crx2,crx3&x=id%3D",
   id |-> id,
   after |-> "%26uc"]

----------------------------------------------------------------------------
(* Rate limiter *)

Endpoints == {"zip", "crx"}

\* the entry of a key, rateMap.get(ip)
Has(map, ip) == ip \in DOMAIN map

\* rateMap.set(ip, entry)
MapSet(map, ip, entry) ==
  [k \in DOMAIN map \cup {ip} |-> IF k = ip THEN entry ELSE map[k]]

\* a mutation of isRateLimited: the sixth call is still allowed (count >= limit + 1 ...)
isRateLimited_OffByOne(map, ip, t) ==
  IF ~Has(map, ip) \/ t > map[ip].resetAt
  THEN [map |-> MapSet(map, ip, [count |-> 1, resetAt |-> t + RATE_WINDOW_MS]),
        limited |-> FALSE]
  ELSE [map |-> MapSet(map, ip, [map[ip] EXCEPT !.count = @ + 1]),
        limited |-> map[ip].count + 1 > RATE_LIMIT + 1]

\* a mutation of isRateLimited: an entry is never restarted once its window is over
isRateLimited_NeverRestarts(map, ip, t) ==
  IF ~Has(map, ip)
  THEN [map |-> MapSet(map, ip, [count |-> 1, resetAt |-> t + RATE_WINDOW_MS]),
        limited |-> FALSE]
  ELSE [map |-> MapSet(map, ip, [map[ip] EXCEPT !.count = @ + 1]),
        limited |-> map[ip].count + 1 > RATE_LIMIT]

\* a mutation of isRateLimited: the incremented count is not written back
isRateLimited_LostIncrement(map, ip, t) ==
  IF ~Has(map, ip) \/ t > map[ip].resetAt
  THEN [map |-> MapSet(map, ip, [count |-> 1, resetAt |-> t + RATE_WINDOW_MS]),
        limited |-> FALSE]
  ELSE [map |-> map, limited |-> map[ip].count + 1 > RATE_LIMIT]

\* a mutation of isRateLimited: every call of a live entry moves the window's end
isRateLimited_SlidingWindow(map, ip, t) ==
  IF ~Has(map, ip) \/ t > map[ip].resetAt
  THEN [map |-> MapSet(map, ip, [count |-> 1, resetAt |-> t + RATE_WINDOW_MS]),
        limited |-> FALSE]
  ELSE [map |-> MapSet(map, ip, [count |-> map[ip].count + 1,
                                 resetAt |-> t + RATE_WINDOW_MS]),
        limited |-> map[ip].count + 1 > RATE_LIMIT]

\* function isRateLimited(ip), at Date.now() = t
isRateLimited(map, ip, t) ==
  IF ~Has(map, ip) \/ t > map[ip].resetAt
  THEN [map |-> MapSet(map, ip, [count |-> 1, resetAt |-> t + RATE_WINDOW_MS]),
        limited |-> FALSE]
  ELSE [map |-> MapSet(map, ip, [map[ip] EXCEPT !.count = @ + 1]),
        limited |-> map[ip].count + 1 > RATE_LIMIT]

\* a mutation of Swept: an entry is deleted from the instant its window ends (>=)
Swept_AtBoundary(map, t) ==
  [k \in {x \in DOMAIN map : ~(t >= map[x].resetAt)} |-> map[k]]

\* a mutation of Swept: the callback empties the store (rateMap.clear())
Swept_Everything(map, t) == << >>

\* the setInterval callback at Date.now() = t: delete every entry with t > resetAt
Swept(map, t) ==
  [k \in {x \in DOMAIN map : ~(t > map[x].resetAt)} |-> map[k]]

\* History: the fixed window a key is in.  A call opens a window when the key
\* has none or the call comes later than RATE_WINDOW_MS after the opening
\* call; n counts the calls of the window, prev those of the window before.
\* ok counts the calls of the window that were allowed.
NoWindow == [open |-> 0, n |-> 0, prev |-> 0, ok |-> 0]

Recorded(w, t) ==
  IF w.n = 0 \/ t > w.open + RATE_WINDOW_MS
  THEN [open |-> t, n |-> 1, prev |-> w.n, ok |-> 0]
  ELSE [w EXCEPT !.n = @ + 1]

Counted(w, allowed) == IF allowed THEN [w EXCEPT !.ok = @ + 1] ELSE w

\* a mutation of StoreOf: both handlers use the rateMap of one module
StoreOf_Shared(e) == "zip"

\* the module whose rateMap (and sweep) the handler of endpoint e uses: each
\* route module declares its own `const rateMap = new Map()`
StoreOf(e) == e

----------------------------------------------------------------------------
(* Requests and their inputs *)

\* rate-limiter scenario: isRateLimited calls and clock advances in one behaviour
MaxCalls == 7

MaxTicks == 2

\* handler scenario: isRateLimited calls and clock advances in one behaviour,
\* chunks of one upstream body stream
HandlerCalls == 1

HandlerTicks == 1

MaxChunks == 3

\* naming scenario: isRateLimited calls and clock advances in one behaviour
NamingCalls == 2

NamingTicks == 1

\* concurrency scenario: isRateLimited calls and clock advances in one behaviour
ConcCalls == 6

ConcTicks == 1

\* frame scenario: isRateLimited calls and clock advances in one behaviour
FrameCalls == 2

FrameTicks == 1

\* handler instances that can be in flight at once
Procs == {"p1", "p2"}

Same(c, n) == [i \in 1 .. n |-> c]

With(s, k, c) == [s EXCEPT ![k] = c]

LowerId == Same(97, ID_LENGTH)

AlphabetId == [i \in 1 .. ID_LENGTH |-> 97 + ((i * 7) % 26)]

\* ids a caller may put in the path
Ids ==
  { LowerId, AlphabetId, With(LowerId, ID_LENGTH, 122),
    Same(65, ID_LENGTH), With(LowerId, 16, 90), toLowerCase(With(LowerId, 16, 90)),
    << >>, Same(97, ID_LENGTH - 1), Same(97, ID_LENGTH + 1), LowerId \o <<10>>,
    With(LowerId, 1, 48), With(LowerId, ID_LENGTH, 45),
    With(LowerId, 7, 96), With(LowerId, 7, 123), With(LowerId, 7, 64),
    With(LowerId, 7, 91), With(LowerId, 20, 32) }

\* x-forwarded-for as headers.get returns it (no white space around the whole
\* value): absent, "1.1", "1.1 , 2.2", "" and ",3"
XffHeaders ==
  { NoHeader, Header(<<49, 46, 49>>), Header(<<49, 46, 49, 32, 44, 32, 50, 46, 50>>), Header(<< >>), Header(<<44, 51>>) }

\* ?name=: absent or empty, "My C!!", " ", "--x--", "!!!", "A1_b9",
\* "My Cool!! Extension--Name"
Names ==
  { << >>, <<77, 121, 32, 67, 33, 33>>, <<32>>, <<45, 45, 120, 45, 45>>, <<33, 33, 33>>, <<65, 49, 95, 98, 57>>,
    <<77, 121, 32, 67, 111, 111, 108, 33, 33, 32, 69, 120, 116, 101, 110, 115, 105, 111, 110, 45, 45, 78, 97, 109, 101>> }

\* upstream statuses: success, not modified, not found, unavailable
UpStatuses == {200, 304, 404, 503}

\* upstream Content-Length: absent, "16", the ceiling, one above it, not a number
LengthHeaders ==
  { NoHeader, Header(toString(16)), Header(toString(MAX_CRX_SIZE)),
    Header(toString(MAX_CRX_SIZE + 1)), Header(<<120>>) }

\* bodies the upstream may send to the archive handler
ZipBodies ==
  { Lit(<< >>),
    Lit(CrxMagic),
    V3Container(2, Lit(ZipMagic \o <<1, 2>>)),
    V2Container(1, 2, Lit(ZipMagic)),
    V3Container(0, Lit(<< >>)),
    Lit(ZipMagic \o <<5>>),
    Lit(<<1, 2, 3, 4, 5>>),
    V3Container(4, Buf(ZipMagic, MAX_CRX_SIZE - 16)),
    V3Container(4, Buf(ZipMagic, MAX_CRX_SIZE - 15)),
    Buf(ZipMagic, MAX_CRX_SIZE),
    Buf(ZipMagic, MAX_CRX_SIZE + 1) }

ChunkSizes == {1, MAX_CRX_SIZE \div 2, MAX_CRX_SIZE}

\* how an awaited fetch() or arrayBuffer() can fail
Failures == {"TimeoutError", "TypeError"}

FetchOutcomes ==
  [kind : Failures, status : {0}, length : {NoHeader}, hasBody : {FALSE}]
  \cup [kind : {"response"}, status : UpStatuses, length : LengthHeaders, hasBody : BOOLEAN]

BodyOutcomes ==
  [kind : Failures, body : {Lit(<< >>)}]
  \cup [kind : {"buffer"}, body : ZipBodies]

\* The handler scenario draws every request input from the full sets and keeps
\* the rate limiter's history short; the rate-limiter scenario keeps the
\* request inputs few and the history long.
HandlerScenario ==
  [starts |-> {"p1"} \X Endpoints, ids |-> Ids,
   routes |-> Endpoints \X {NoHeader, Header(<<49, 46, 49, 32, 44, 32, 50, 46, 50>>)},
   names |-> {<< >>, <<77, 121, 32, 67, 33, 33>>}, fetches |-> FetchOutcomes,
   bodies |-> BodyOutcomes, chunks |-> ChunkSizes, deltas |-> {RATE_WINDOW_MS},
   maxCalls |-> HandlerCalls, maxTicks |-> HandlerTicks, maxChunks |-> MaxChunks]

RateScenario ==
  [starts |-> {"p1"} \X Endpoints,
   ids |-> {LowerId, Same(65, ID_LENGTH), Same(97, ID_LENGTH + 1)},
   routes |-> {<<"zip", NoHeader>>, <<"crx", NoHeader>>},
   names |-> {<< >>},
   fetches |-> {[kind |-> "response", status |-> 200, length |-> NoHeader, hasBody |-> TRUE]},
   bodies |-> {[kind |-> "buffer", body |-> V3Container(2, Lit(ZipMagic \o <<1, 2>>))]},
   chunks |-> {MAX_CRX_SIZE}, deltas |-> {1, RATE_WINDOW_MS},
   maxCalls |-> MaxCalls, maxTicks |-> MaxTicks, maxChunks |-> 1]

\* The naming scenario draws every forwarded-for header and every name hint and
\* keeps the upstream well-behaved.
NamingScenario ==
  [starts |-> {"p1"} \X Endpoints, ids |-> {LowerId},
   routes |-> Endpoints \X XffHeaders, names |-> Names,
   fetches |-> {[kind |-> "response", status |-> 200, length |-> NoHeader, hasBody |-> TRUE]},
   bodies |-> {[kind |-> "buffer", body |-> V3Container(2, Lit(ZipMagic \o <<1, 2>>))]},
   chunks |-> {MAX_CRX_SIZE}, deltas |-> {RATE_WINDOW_MS},
   maxCalls |-> NamingCalls, maxTicks |-> NamingTicks, maxChunks |-> 1]

\* The concurrency scenario has two requests in flight at once, both keyed
\* "unknown" and both possibly at the archive endpoint, and a clock that steps
\* over the end of a window.
ConcScenario ==
  [starts |-> {<<"p1", "zip">>, <<"p1", "crx">>, <<"p2", "zip">>}, ids |-> {LowerId},
   routes |-> {<<"zip", NoHeader>>, <<"crx", NoHeader>>}, names |-> {<< >>},
   fetches |-> {[kind |-> "response", status |-> 200, length |-> NoHeader, hasBody |-> TRUE]},
   bodies |-> {[kind |-> "buffer", body |-> V3Container(2, Lit(ZipMagic \o <<1, 2>>))]},
   chunks |-> {MAX_CRX_SIZE}, deltas |-> {RATE_WINDOW_MS + 1},
   maxCalls |-> ConcCalls, maxTicks |-> ConcTicks, maxChunks |-> 1]

\* The frame scenario has two caller keys at the archive endpoint and a clock
\* that steps to the last instant of a window or past it; it starts from a
\* store that calls at time 0 have filled.
FrameScenario ==
  [starts |-> {"p1"} \X Endpoints, ids |-> {LowerId},
   routes |-> {<<"zip", NoHeader>>, <<"zip", Header(<<49, 46, 49>>)>>, <<"crx", NoHeader>>},
   names |-> {<< >>},
   fetches |-> {[kind |-> "response", status |-> 200, length |-> NoHeader, hasBody |-> TRUE]},
   bodies |-> {[kind |-> "buffer", body |-> V3Container(2, Lit(ZipMagic \o <<1, 2>>))]},
   chunks |-> {MAX_CRX_SIZE}, deltas |-> {RATE_WINDOW_MS, RATE_WINDOW_MS + 1},
   maxCalls |-> FrameCalls, maxTicks |-> FrameTicks, maxChunks |-> 1]

Idle ==
  [pc |-> "idle", endpoint |-> "none", id |-> << >>, key |-> << >>, callNo |-> 0,
   url |-> NoUrl, upStatus |-> 0, upLength |-> NoHeader, body |-> Lit(<< >>),
   upRead |-> 0, bytesRead |-> 0, chunks |-> 0, stream |-> "none",
   status |-> 0, error |-> "", payload |-> 0, filename |-> << >>,
   contentLength |-> << >>, retryAfter |-> << >>,
   xff |-> NoHeader, name |-> << >>, upBody |-> FALSE, failure |-> ""]

\* return NextResponse.json({ error }, { status })
Respond(r, status, error) ==
  [r EXCEPT !.pc = "done", !.status = status, !.error = error]

\* a mutation of Caught: every error gets the generic reason
Caught_OneReason(r, name) == Respond(r, 502, "Failed to download CRX file")

\* the catch block: "TimeoutError" is told apart from every other error
Caught(r, name) ==
  Respond(r, 502, IF name = "TimeoutError" THEN "Upstream request timed out"
                  ELSE "Failed to download CRX file")

\* statuses a Response with a body cannot carry: the constructor throws TypeError
NullBodyStatuses == {101, 103, 204, 205, 304}

\* NextResponse.json(...) inside the try block
RespondInTry(r, status, error) ==
  IF status \in NullBodyStatuses THEN Caught(r, "TypeError") ELSE Respond(r, status, error)

\* response.ok
Ok(status) == status \in 200 .. 299

----------------------------------------------------------------------------
(* The handlers' steps.  A handler runs without interruption from one await  *)
(* to the next.                                                              *)

\* a mutation of Entered: the rate limiter is consulted before the id is validated
Entered_RateLimitFirst(r, map, id, xff, t) ==
  LET key == CallerKey(xff)
      res == isRateLimited(map, key, t)
  IN  IF res.limited
      THEN [called |-> TRUE, map |-> res.map,
            req |-> [Respond([r EXCEPT !.id = id, !.key = key, !.xff = xff], 429,
                             "Too many requests. Try again in a minute.")
                       EXCEPT !.retryAfter = toString(60)]]
      ELSE IF ~ValidId(id)
      THEN [called |-> TRUE, map |-> res.map,
            req |-> Respond([r EXCEPT !.id = id], 400, "Invalid extension ID")]
      ELSE [called |-> TRUE, map |-> res.map,
            req |-> [r EXCEPT !.id = id, !.key = key, !.xff = xff, !.pc = "fetch",
                              !.url = CrxUrl(id)]]

\* GET from `const { id } = await params` to `await fetch(url, ...)`: the
\* request r, the module's rateMap, the path id, the x-forwarded-for header
\* and Date.now(); called tells whether isRateLimited ran
Entered(r, map, id, xff, t) ==
  IF ~ValidId(id)
  THEN [called |-> FALSE, map |-> map,
        req |-> Respond([r EXCEPT !.id = id], 400, "Invalid extension ID")]
  ELSE LET key == CallerKey(xff)
           res == isRateLimited(map, key, t)
       IN  [called |-> TRUE, map |-> res.map,
            req |-> IF res.limited
                    THEN [Respond([r EXCEPT !.id = id, !.key = key, !.xff = xff], 429,
                                  "Too many requests. Try again in a minute.")
                            EXCEPT !.retryAfter = toString(60)]
                    ELSE [r EXCEPT !.id = id, !.key = key, !.xff = xff, !.pc = "fetch",
                                   !.url = CrxUrl(id)]]

\* the raw-container GET from the fetch() result to `return new Response(...)`
StreamedAfterFetch(r, u) ==
  LET contentLength ==
        parseInt(IF u.length.present /\ u.length.text # << >> THEN u.length.text
                 ELSE toString(0))
  IN  IF Greater(contentLength, MAX_CRX_SIZE)
      THEN RespondInTry(r, 413, "Extension file too large")
      ELSE IF ~u.hasBody
      THEN RespondInTry(r, 502, "No response body from upstream")
      ELSE [r EXCEPT !.pc = "stream", !.status = 200, !.stream = "open",
                     !.filename = CrxFilename(r.id),
                     !.contentLength = IF Greater(contentLength, 0)
                                       THEN toString(contentLength.val) ELSE << >>]

\* GET from the result of `await fetch(url, ...)` to the next await or return
AfterFetch(r, u) ==
  IF u.kind # "response" THEN Caught([r EXCEPT !.failure = u.kind], u.kind)
  ELSE LET r1 == [r EXCEPT !.upStatus = u.status, !.upLength = u.length,
                           !.upBody = u.hasBody]
       IN  IF ~Ok(u.status) THEN RespondInTry(r1, u.status, "Failed to fetch CRX file")
           ELSE IF r.endpoint = "zip" THEN [r1 EXCEPT !.pc = "body"]
           ELSE StreamedAfterFetch(r1, u)

\* a mutation of AfterBody: a body the parser gives up on is served as it came
AfterBody_ServesUnparsed(r, o, rawName) ==
  IF o.kind # "buffer" THEN Caught([r EXCEPT !.failure = o.kind], o.kind)
  ELSE LET r1 == [r EXCEPT !.body = o.body, !.upRead = byteLength(o.body)]
           zipData == stripCrxHeader(o.body)
       IN  IF byteLength(o.body) > MAX_CRX_SIZE
           THEN RespondInTry(r1, 413, "Extension file too large")
           ELSE IF zipData.kind = "RangeError" THEN Caught(r1, "RangeError")
           ELSE LET data == IF zipData.kind = "null" THEN o.body ELSE zipData.data
                IN  [r1 EXCEPT !.pc = "done", !.status = 200, !.name = rawName,
                               !.payload = byteLength(data),
                               !.filename = ZipFilename(rawName, r.id),
                               !.contentLength = toString(byteLength(data))]

\* the archive GET from the result of `await response.arrayBuffer()` to its return
AfterBody(r, o, rawName) ==
  IF o.kind # "buffer" THEN Caught([r EXCEPT !.failure = o.kind], o.kind)
  ELSE LET r1 == [r EXCEPT !.body = o.body, !.upRead = byteLength(o.body)]
           zipData == stripCrxHeader(o.body)
       IN  IF byteLength(o.body) > MAX_CRX_SIZE
           THEN RespondInTry(r1, 413, "Extension file too large")
           ELSE IF zipData.kind = "RangeError" THEN Caught(r1, "RangeError")
           ELSE IF zipData.kind = "null"
           THEN RespondInTry(r1, 502, "Could not parse CRX file - invalid format")
           ELSE [r1 EXCEPT !.pc = "done", !.status = 200, !.name = rawName,
                           !.payload = byteLength(zipData.data),
                           !.filename = ZipFilename(rawName, r.id),
                           !.contentLength = toString(byteLength(zipData.data))]

\* a mutation of Transformed: the chunk is enqueued before the total is tested
Transformed_EnqueueFirst(r, size) ==
  LET total == r.bytesRead + size
      r1 == [r EXCEPT !.bytesRead = total, !.upRead = total, !.chunks = @ + 1,
                      !.payload = @ + size]
  IN  IF total > MAX_CRX_SIZE THEN [r1 EXCEPT !.stream = "errored", !.pc = "done"] ELSE r1

\* a mutation of Transformed: past the ceiling the stream is ended, not errored
Transformed_Terminate(r, size) ==
  LET total == r.bytesRead + size
      r1 == [r EXCEPT !.bytesRead = total, !.upRead = total, !.chunks = @ + 1]
  IN  IF total > MAX_CRX_SIZE
      THEN [r1 EXCEPT !.stream = "closed", !.pc = "done"]
      ELSE [r1 EXCEPT !.payload = @ + size]

\* limiter.transform(chunk, controller) for a chunk of size bytes
Transformed(r, size) ==
  LET total == r.bytesRead + size
      r1 == [r EXCEPT !.bytesRead = total, !.upRead = total, !.chunks = @ + 1]
  IN  IF total > MAX_CRX_SIZE
      THEN [r1 EXCEPT !.stream = "errored", !.pc = "done"]
      ELSE [r1 EXCEPT !.payload = @ + size]

WindowOf(w, key) == IF key \in DOMAIN w THEN w[key] ELSE NoWindow

HandlerInit ==
  /\ now = 0
  /\ ticks = 0
  /\ calls = 0
  /\ rateMap = [e \in Endpoints |-> << >>]
  /\ sweepAt = [e \in Endpoints |-> RATE_WINDOW_MS]
  /\ req = [p \in Procs |-> Idle]
  /\ win = [e \in Endpoints |-> << >>]
  /\ unswept = [e \in Endpoints |-> << >>]

\* a GET arrives at an endpoint and waits for its params
Start(p, e, sc) ==
  /\ <<p, e>> \in sc.starts
  /\ req[p].pc = "idle"
  /\ req' = [req EXCEPT ![p] = [Idle EXCEPT !.pc = "params", !.endpoint = e]]
  /\ UNCHANGED <<now, ticks, calls, rateMap, sweepAt, win, unswept, pvars>>

\* params resolve: validation, rate limiting, fetch(url) is issued
Enter(p, sc) ==
  /\ req[p].pc = "params"
  /\ \E id \in sc.ids, xff \in {h \in XffHeaders : <<req[p].endpoint, h>> \in sc.routes} :
       LET e   == req[p].endpoint
           m   == StoreOf(e)
           out == Entered(req[p], rateMap[m], id, xff, now)
           w   == Counted(Recorded(WindowOf(win[e], CallerKey(xff)), now),
                          out.req.pc = "fetch")
       IN  IF out.called
           THEN /\ calls < sc.maxCalls
                /\ calls' = calls + 1
                /\ rateMap' = [rateMap EXCEPT ![m] = out.map]
                /\ win' = [win EXCEPT ![e] = MapSet(@, CallerKey(xff), w)]
                /\ unswept' = [unswept EXCEPT
                                 ![m] = isRateLimited(@, CallerKey(xff), now).map]
                /\ req' = [req EXCEPT ![p] = [out.req EXCEPT !.callNo = w.n]]
           ELSE /\ req' = [req EXCEPT ![p] = out.req]
                /\ UNCHANGED <<calls, rateMap, win, unswept>>
  /\ UNCHANGED <<now, ticks, sweepAt, pvars>>

\* fetch(url) settles
FetchResolves(p, sc) ==
  /\ req[p].pc = "fetch"
  /\ \E u \in sc.fetches :
       /\ (req[p].endpoint = "zip" /\ u.kind = "response") => u.hasBody
       /\ req' = [req EXCEPT ![p] = AfterFetch(req[p], u)]
  /\ UNCHANGED <<now, ticks, calls, rateMap, sweepAt, win, unswept, pvars>>

\* response.arrayBuffer() settles (a response without a body gives the empty buffer)
BodyResolves(p, sc) ==
  /\ req[p].pc = "body"
  /\ \E o \in sc.bodies, rawName \in sc.names :
       req' = [req EXCEPT ![p] = AfterBody(req[p], o, rawName)]
  /\ UNCHANGED <<now, ticks, calls, rateMap, sweepAt, win, unswept, pvars>>

\* an upstream chunk goes through the limiter
StreamChunk(p, sc) ==
  /\ req[p].pc = "stream"
  /\ req[p].chunks < sc.maxChunks
  /\ \E size \in sc.chunks : req' = [req EXCEPT ![p] = Transformed(req[p], size)]
  /\ UNCHANGED <<now, ticks, calls, rateMap, sweepAt, win, unswept, pvars>>

\* the upstream body ends: the piped stream closes
StreamEnd(p) ==
  /\ req[p].pc = "stream"
  /\ req' = [req EXCEPT ![p] = [@ EXCEPT !.stream = "closed", !.pc = "done"]]
  /\ UNCHANGED <<now, ticks, calls, rateMap, sweepAt, win, unswept, pvars>>

\* the upstream body fails (the 9 s abort signal, a network error): the piped stream errors
StreamFail(p) ==
  /\ req[p].pc = "stream"
  /\ \E f \in Failures :
       req' = [req EXCEPT ![p] = [@ EXCEPT !.stream = "errored", !.pc = "done",
                                           !.failure = f]]
  /\ UNCHANGED <<now, ticks, calls, rateMap, sweepAt, win, unswept, pvars>>

\* the response has been consumed; the handler instance serves the next request
Forget(p) ==
  /\ req[p].pc = "done"
  /\ req' = [req EXCEPT ![p] = Idle]
  /\ UNCHANGED <<now, ticks, calls, rateMap, sweepAt, win, unswept, pvars>>

\* time passes
Tick(d, sc) ==
  /\ ticks < sc.maxTicks
  /\ ticks' = ticks + 1
  /\ now' = now + d
  /\ UNCHANGED <<calls, rateMap, sweepAt, req, win, unswept, pvars>>

\* the setInterval callback of an endpoint's module runs
Sweep(e) ==
  /\ now >= sweepAt[StoreOf(e)]
  /\ rateMap' = [rateMap EXCEPT ![StoreOf(e)] = Swept(@, now)]
  /\ sweepAt' = [sweepAt EXCEPT ![StoreOf(e)] = now + RATE_WINDOW_MS]
  /\ UNCHANGED <<now, ticks, calls, req, win, unswept, pvars>>

\* the archive module's store after some calls at time 0: per key no entry, or
\* an entry that has counted 1, 5 or 6 calls
FrameStores ==
  UNION { [ks -> [count : {1, RATE_LIMIT, RATE_LIMIT + 1}, resetAt : {RATE_WINDOW_MS}]] :
            ks \in SUBSET {Unknown, <<49, 46, 49>>} }

\* the windows of the calls that filled a store
WindowsOf(map) ==
  [k \in DOMAIN map |->
     [open |-> map[k].resetAt - RATE_WINDOW_MS, n |-> map[k].count, prev |-> 0,
      ok |-> Min(map[k].count, RATE_LIMIT)]]

StoreInit ==
  /\ now = 0
  /\ ticks = 0
  /\ calls = 0
  /\ \E m \in FrameStores :
       /\ rateMap = [e \in Endpoints |-> IF e = "zip" THEN m ELSE << >>]
       /\ win = [e \in Endpoints |-> IF e = "zip" THEN WindowsOf(m) ELSE << >>]
       /\ unswept = [e \in Endpoints |-> IF e = "zip" THEN m ELSE << >>]
  /\ sweepAt = [e \in Endpoints |-> RATE_WINDOW_MS]
  /\ req = [p \in Procs |-> Idle]

NextIn(sc) ==
  \/ \E p \in Procs, e \in Endpoints : Start(p, e, sc)
  \/ \E p \in Procs : Enter(p, sc)
  \/ \E p \in Procs : FetchResolves(p, sc)
  \/ \E p \in Procs : BodyResolves(p, sc)
  \/ \E p \in Procs : StreamChunk(p, sc)
  \/ \E p \in Procs : StreamEnd(p)
  \/ \E p \in Procs : StreamFail(p)
  \/ \E p \in Procs : Forget(p)
  \/ \E d \in sc.deltas : Tick(d, sc)
  \/ \E e \in Endpoints : Sweep(e)

Next == NextIn(HandlerScenario)

RateNext == NextIn(RateScenario)

NamingNext == NextIn(NamingScenario)

ConcNext == NextIn(ConcScenario)

FrameNext == NextIn(FrameScenario)

ParserInit ==
  /\ pin \in ParserInputs
  /\ pbuf = InputBuffer(pin)
  /\ presult = Pending

\* the parser specification runs no request; the handler specification parses
\* inside BodyResolves and leaves the parser's variables alone
ParserIdle ==
  /\ pin = [kind |-> "bare", a |-> 0, b |-> 0, payload |-> Lit(<< >>), cut |-> -1]
  /\ pbuf = Lit(<< >>)
  /\ presult = Pending

\* const zipData = stripCrxHeader(crxBuf)
Strip ==
  /\ presult = Pending
  /\ presult' = stripCrxHeader(pbuf)
  /\ UNCHANGED <<pin, pbuf, hvars>>

ParserNext == Strip

ParserSpecInit == ParserInit /\ HandlerInit

SpecParser == ParserSpecInit /\ [][ParserNext]_vars

Init == HandlerInit /\ ParserIdle

Spec == Init /\ [][Next]_vars

SpecRate == Init /\ [][RateNext]_vars

SpecNaming == Init /\ [][NamingNext]_vars

SpecConc == Init /\ [][ConcNext]_vars

FrameInit == StoreInit /\ ParserIdle

SpecFrame == FrameInit /\ [][FrameNext]_vars

----------------------------------------------------------------------------
(* Claims about the handlers *)

\* the request of p has been through validation
Validated(p) == req[p].pc \notin {"idle", "params"}

\* answered by the validator / by the rate limiter
Rejected(r) == r.pc = "done" /\ r.status = 400 /\ r.error = "Invalid extension ID"

Throttled(r) ==
  r.pc = "done" /\ r.status = 429 /\ r.error = "Too many requests. Try again in a minute."

IsLetter(c) == IsLower(c) \/ IsUpper(c)

AllLetters(id) == \A i \in 1 .. Len(id) : IsLetter(id[i])

AllLower(id) == \A i \in 1 .. Len(id) : IsLower(id[i])

EndsWith(s, t) == Len(s) >= Len(t) /\ SubSeq(s, Len(s) - Len(t) + 1, Len(s)) = t

ExtOf(r) == IF r.endpoint = "zip" THEN ZipExt ELSE CrxExt

\* C1: for one caller key the first 5 calls of isRateLimited inside one
\* 60-second window are allowed, the 6th and every later call inside it is
\* denied with 429, and the first call after the window has elapsed
\* (now > resetAt) is allowed again with the counter restarted at 1.
C1_FixedWindowLimit ==
  /\ \A p \in Procs :
       req[p].callNo > 0 =>
         IF req[p].callNo > RATE_LIMIT
         THEN Throttled(req[p]) /\ ~req[p].url.issued
         ELSE ~Throttled(req[p]) /\ req[p].url.issued
  /\ \A e \in Endpoints : \A k \in DOMAIN win[e] :
       IF Has(rateMap[e], k)
       THEN rateMap[e][k] = [count |-> win[e][k].n,
                             resetAt |-> win[e][k].open + RATE_WINDOW_MS]
       ELSE now > win[e][k].open + RATE_WINDOW_MS

\* a key whose window before held more than 5 calls is allowed again, count 1
C1_Witness ==
  \E p \in Procs :
    /\ req[p].pc = "fetch" /\ req[p].callNo = 1
    /\ win[req[p].endpoint][req[p].key].prev > RATE_LIMIT
    /\ rateMap[req[p].endpoint][req[p].key].count = 1

\* C2: at both endpoints every id whose length is not 32 or that contains a
\* character that is not a letter is rejected with 400, and no upstream fetch
\* is issued for it.
C2_MalformedIdRejected ==
  \A p \in Procs :
    (Validated(p) /\ (Len(req[p].id) # ID_LENGTH \/ ~AllLetters(req[p].id))) =>
      Rejected(req[p]) /\ ~req[p].url.issued

C2_Witness ==
  \E p \in Procs :
    /\ Rejected(req[p]) /\ req[p].endpoint = "crx"
    /\ req[p].id = LowerId \o <<10>>

\* C3 as stated: every 32-letter id, whatever the case of its letters, is
\* accepted by the validator, and the id used for the upstream URL and the
\* response filename is its lowercase form.
C3_AnyCaseAccepted ==
  \A p \in Procs :
    (Validated(p) /\ Len(req[p].id) = ID_LENGTH /\ AllLetters(req[p].id)) =>
      /\ ~Rejected(req[p])
      /\ req[p].url.issued => req[p].url.id = toLowerCase(req[p].id)
      /\ req[p].status = 200 =>
           EndsWith(req[p].filename, toLowerCase(req[p].id) \o ExtOf(req[p]))

\* C3 amended: identifier acceptance is case-sensitive.  Every id of 32
\* lower-case letters is accepted by the validator and is used as it is (it is
\* its own lowercase form) for the upstream URL and the response filename;
\* a 32-letter id with an upper-case letter is rejected with 400 and no fetch.
C3_LowerCaseAccepted ==
  \A p \in Procs :
    (Validated(p) /\ Len(req[p].id) = ID_LENGTH /\ AllLetters(req[p].id)) =>
      IF AllLower(req[p].id)
      THEN /\ ~Rejected(req[p])
           /\ req[p].id = toLowerCase(req[p].id)
           /\ req[p].url.issued => req[p].url.id = req[p].id
           /\ req[p].status = 200 =>
                EndsWith(req[p].filename, req[p].id \o ExtOf(req[p]))
      ELSE Rejected(req[p]) /\ ~req[p].url.issued

C3_Witness ==
  \E p \in Procs :
    /\ req[p].pc = "done" /\ req[p].status = 200 /\ req[p].endpoint = "zip"
    /\ req[p].id = AlphabetId /\ req[p].url.id = AlphabetId
    /\ Len(req[p].filename) > ID_LENGTH + Len(ZipExt)

\* not an id the validator accepts
NotAnId(id) == Len(id) # ID_LENGTH \/ ~AllLower(id)

\* C4: a request with an invalid id is answered 400 before the rate limiter is
\* consulted: the step that answers it leaves the rate-limit store unchanged
\* (no entry created, no count incremented).
C4_InvalidIdLeavesRateMap ==
  [][\A p \in Procs :
       (req[p].pc = "params" /\ req'[p].pc # "params" /\ NotAnId(req'[p].id)) =>
         /\ Rejected(req'[p])
         /\ rateMap' = rateMap
         /\ win' = win
         /\ calls' = calls]_vars

\* an invalid id is answered while the endpoint's store holds an entry
C4_Witness ==
  \E p \in Procs :
    /\ Rejected(req[p]) /\ NotAnId(req[p].id)
    /\ rateMap[req[p].endpoint] # << >>

\* C5: at either endpoint, whatever Content-Length upstream advertised, the
\* payload bytes handed to the caller for one request never exceed 20 MiB: the
\* streamer enqueues no chunk once the running total exceeds the ceiling, and
\* the buffered path answers 413 when the body it read exceeds it.
C5_ByteCeiling ==
  \A p \in Procs :
    /\ req[p].payload <= MAX_CRX_SIZE
    /\ req[p].endpoint = "crx" => req[p].payload <= req[p].bytesRead
    /\ (req[p].endpoint = "crx" /\ req[p].bytesRead > MAX_CRX_SIZE) => req[p].pc = "done"
    /\ (req[p].endpoint = "zip" /\ req[p].pc = "done" /\ req[p].upRead > MAX_CRX_SIZE) =>
         req[p].status = 413 /\ req[p].payload = 0

\* the ceiling's worth was delivered, the next chunk was not, under a wrong Content-Length
C5_Witness ==
  \E p \in Procs :
    /\ req[p].endpoint = "crx" /\ req[p].pc = "done"
    /\ req[p].upLength = Header(toString(16))
    /\ req[p].payload = MAX_CRX_SIZE /\ req[p].bytesRead = MAX_CRX_SIZE + 1

\* C6: when upstream advertises no Content-Length and emits more than the
\* ceiling, the raw-container request ends with the caller observing an errored
\* response stream, never with a 200 response whose body merely ends early.
C6_OversizeStreamErrors ==
  \A p \in Procs :
    (req[p].endpoint = "crx" /\ ~req[p].upLength.present
       /\ req[p].bytesRead > MAX_CRX_SIZE) =>
      /\ req[p].pc = "done"
      /\ req[p].stream = "errored"
      /\ ~(req[p].status = 200 /\ req[p].stream = "closed")

C6_Witness ==
  \E p \in Procs :
    /\ req[p].endpoint = "crx" /\ ~req[p].upLength.present
    /\ req[p].bytesRead > MAX_CRX_SIZE /\ req[p].stream = "errored"
    /\ req[p].payload > 0

\* C7: at both endpoints, when the upstream response declares a Content-Length
\* above the ceiling, the request fails with 413 and no byte of the upstream
\* body is read before that (stated for requests no transport failure ended).
C7_AdvertisedSizeCutoff ==
  \A p \in Procs :
    (req[p].pc = "done" /\ Ok(req[p].upStatus) /\ req[p].upLength.present
       /\ Greater(parseInt(req[p].upLength.text), MAX_CRX_SIZE)
       /\ req[p].error \notin {"Upstream request timed out", "Failed to download CRX file"}) =>
      req[p].status = 413 /\ req[p].upRead = 0

\* C11: whenever the upstream response has a non-success status s, the
\* caller's response has that same status s, at both endpoints.
C11_UpstreamStatusPropagated ==
  \A p \in Procs :
    (req[p].pc = "done" /\ req[p].upStatus # 0 /\ ~Ok(req[p].upStatus)) =>
      req[p].status = req[p].upStatus

\* the archive handler read the whole upstream body and it is within the ceiling
BodyRead(r) ==
  r.endpoint = "zip" /\ r.pc = "done" /\ Ok(r.upStatus) /\ r.failure = ""
    /\ r.upRead = byteLength(r.body) /\ byteLength(r.body) <= MAX_CRX_SIZE

\* C12 as stated: a request answers with status 502 when upstream returned a
\* non-success status, when upstream supplied no body, and (archive endpoint
\* only) when the container cannot be parsed.
C12_GatewayFailures502 ==
  \A p \in Procs :
    /\ (req[p].pc = "done" /\ req[p].upStatus # 0 /\ ~Ok(req[p].upStatus)) =>
         req[p].status = 502
    /\ (req[p].pc = "done" /\ req[p].endpoint = "crx" /\ Ok(req[p].upStatus)
          /\ ~req[p].upBody) => req[p].status \in {502, 413}
    /\ (BodyRead(req[p]) /\ stripCrxHeader(req[p].body).kind # "view") =>
         req[p].status = 502

\* C12 amended: a request answers with status 502 when upstream answered with
\* success but supplied no body (raw-container endpoint, a declared length
\* above the ceiling answering 413 first) and, at the archive endpoint only,
\* when the container read within the ceiling cannot be parsed; an upstream
\* status of 404 or 503 is answered with that status, not with 502.
C12_NoBodyOrUnparsable502 ==
  \A p \in Procs :
    /\ (req[p].pc = "done" /\ req[p].upStatus \in {404, 503}) =>
         req[p].status = req[p].upStatus /\ req[p].status # 502
    /\ (req[p].pc = "done" /\ req[p].endpoint = "crx" /\ Ok(req[p].upStatus)
          /\ ~req[p].upBody) =>
         IF req[p].upLength.present
              /\ Greater(parseInt(req[p].upLength.text), MAX_CRX_SIZE)
         THEN req[p].status = 413
         ELSE req[p].status = 502 /\ req[p].error = "No response body from upstream"
    /\ (BodyRead(req[p]) /\ stripCrxHeader(req[p].body).kind # "view") =>
         req[p].status = 502 /\ req[p].payload = 0
    /\ req[p].error = "Could not parse CRX file - invalid format" =>
         req[p].endpoint = "zip"

\* the archive endpoint answers 502 for a body that is no container; so does
\* the raw-container endpoint for a success without a body
C12_Witness ==
  \E p \in Procs :
    /\ BodyRead(req[p]) /\ req[p].body = Lit(<<1, 2, 3, 4, 5>>)
    /\ req[p].status = 502
    /\ req[p].error = "Could not parse CRX file - invalid format"

\* the 9-second deadline fired while the raw-container body was being piped,
\* after `return new Response(...)`
TimedOutWhileStreaming(r) == r.failure = "TimeoutError" /\ r.stream # "none"

TimedOutAnswer(r) ==
  r.pc = "done" /\ r.status = 502 /\ r.error = "Upstream request timed out"

\* C13 as stated: whenever the 9-second upstream deadline fires during a
\* request, in either retrieval mode, before the response headers arrive or
\* while the body is still being transferred, the caller receives 502 with the
\* timed-out reason, distinct from the reason of any other transport failure.
C13_TimeoutDiagnosis ==
  \A p \in Procs :
    /\ req[p].failure = "TimeoutError" => TimedOutAnswer(req[p])
    /\ (req[p].failure # "" /\ req[p].failure # "TimeoutError") =>
         ~TimedOutAnswer(req[p])

\* C13 amended: when the 9-second deadline fires before the response headers
\* arrive (either endpoint) or while the archive endpoint is reading the body,
\* the caller receives 502 with the timed-out reason, and any other transport
\* failure at those points receives 502 with a different reason; when it fires
\* while the raw-container endpoint is piping the body, status 200 has already
\* been sent and the caller observes an errored stream, whatever the failure.
C13_TimeoutBeforeResponse ==
  \A p \in Procs :
    /\ (req[p].failure = "TimeoutError" /\ ~TimedOutWhileStreaming(req[p])) =>
         TimedOutAnswer(req[p])
    /\ (req[p].failure \notin {"", "TimeoutError"} /\ req[p].stream = "none") =>
         /\ req[p].pc = "done" /\ req[p].status = 502
         /\ req[p].error = "Failed to download CRX file"
    /\ (req[p].failure # "" /\ req[p].stream # "none") =>
         /\ req[p].endpoint = "crx" /\ req[p].pc = "done"
         /\ req[p].status = 200 /\ req[p].error = ""
         /\ req[p].stream = "errored"

\* the deadline fired while the archive endpoint was reading a 200 response's body
C13_Witness ==
  \E p \in Procs :
    /\ req[p].endpoint = "zip" /\ req[p].failure = "TimeoutError"
    /\ req[p].upStatus = 200 /\ TimedOutAnswer(req[p])

\* the step in which the handler of p answers 429
Denies(p) == req[p].pc = "params" /\ Throttled(req'[p])

\* milliseconds from the denial to the reset of the denied key's window
RemainingAtDenial(p) ==
  rateMap'[req'[p].endpoint][req'[p].key].resetAt - now

\* C14 as stated: every 429 denial tells the caller the time remaining until
\* the caller key's current window resets (resetAt minus now, in whole
\* seconds rounded up), so that a caller who waits that long is allowed again.
C14_RetryAfterIsRemaining ==
  [][\A p \in Procs :
       Denies(p) =>
         parseInt(req'[p].retryAfter).val * 1000 \in
           RemainingAtDenial(p) .. RemainingAtDenial(p) + 999]_vars

\* C14 amended: every 429 denial carries the fixed Retry-After of 60 seconds,
\* the length of the window; the time remaining until the key's window resets
\* is between 0 and 60 seconds, so 60 is an upper bound of it and not the
\* remaining time; a call of that key later than 60 seconds after the denial
\* is allowed again.
C14_RetryAfterIsWindowLength ==
  [][\A p \in Procs :
       Denies(p) =>
         /\ req'[p].retryAfter = <<54, 48>>
         /\ RemainingAtDenial(p) \in 0 .. RATE_WINDOW_MS
         /\ RemainingAtDenial(p) <= parseInt(req'[p].retryAfter).val * 1000
         /\ ~isRateLimited(rateMap'[req'[p].endpoint], req'[p].key,
                           now + 60 * 1000 + 1).limited]_vars

\* a denial in the last instant of the window: nothing remains, Retry-After is 60
C14_Witness ==
  \E p \in Procs :
    /\ Throttled(req[p]) /\ req[p].retryAfter = <<54, 48>>
    /\ rateMap[req[p].endpoint][req[p].key].resetAt = now
    /\ rateMap[req[p].endpoint][req[p].key].count = req[p].callNo

\* the keys either endpoint has been called with
KeysSeen == DOMAIN win["zip"] \cup DOMAIN win["crx"]

\* requests of key k allowed in the current window of endpoint e
AllowedAt(e, k) == WindowOf(win[e], k).ok

\* the current windows of k at both endpoints opened no longer than 60 seconds
\* ago: every call counted in them lies inside one 60-second span
InOneSpan(k) ==
  /\ k \in DOMAIN win["zip"] /\ k \in DOMAIN win["crx"]
  /\ now <= Min(win["zip"][k].open, win["crx"][k].open) + RATE_WINDOW_MS

\* C15 as stated: the rate-limit store is a single process-wide mapping, so
\* for one caller key the number of allowed requests inside one 60-second
\* window is at most 5 counted over both endpoints together.
C15_SharedLimit ==
  \A k \in KeysSeen :
    InOneSpan(k) => AllowedAt("zip", k) + AllowedAt("crx", k) <= RATE_LIMIT

\* C15 amended: each endpoint's module has a rate-limit store of its own, whose
\* entry for a key counts the calls at that endpoint only; for one caller key
\* the number of allowed requests inside one 60-second window is at most 5 at
\* each endpoint, hence at most 10 over both endpoints together.
C15_LimitPerEndpoint ==
  \A k \in KeysSeen :
    /\ \A e \in Endpoints :
         /\ AllowedAt(e, k) <= RATE_LIMIT
         /\ Has(rateMap[e], k) =>
              k \in DOMAIN win[e] /\ rateMap[e][k].count = win[e][k].n
    /\ AllowedAt("zip", k) + AllowedAt("crx", k) <= 2 * RATE_LIMIT

\* one key, one 60-second span, more than 5 requests allowed over the two endpoints
C15_Witness ==
  \E k \in KeysSeen :
    /\ InOneSpan(k)
    /\ AllowedAt("zip", k) + AllowedAt("crx", k) > RATE_LIMIT
    /\ rateMap["zip"][k].count <= RATE_LIMIT /\ rateMap["crx"][k].count <= RATE_LIMIT

\* k is the left-most element of the comma-separated chain text, without the
\* white space around it
LeftMostTrimmed(text, k) ==
  \E j \in 0 .. Len(text) :
    /\ j = Len(text) \/ text[j + 1] = 44
    /\ \A i \in 1 .. j : text[i] # 44
    /\ \E a \in 0 .. j : \E b \in a .. j :
         /\ \A i \in 1 .. a : IsSpace(text[i])
         /\ \A i \in (b + 1) .. j : IsSpace(text[i])
         /\ k = SubSeq(text, a + 1, b)
         /\ k # << >> => ~IsSpace(k[1]) /\ ~IsSpace(k[Len(k)])

\* the handler of p runs its rate-limit check in this step
Checks(p) == req[p].pc = "params" /\ req'[p].callNo > 0

\* C16: the rate-limit key is the left-most element of the forwarded-for
\* header chain with surrounding white space trimmed; when the header is
\* absent, or that element is empty, the key is "unknown", so all requests
\* lacking the header are counted against one shared counter of the endpoint's
\* store: the check counts the request on the entry of its key and touches no
\* other entry.
C16_CallerKey ==
  [][\A p \in Procs :
       Checks(p) =>
         LET r == req'[p]
             old == rateMap[r.endpoint]
             new == rateMap'[r.endpoint]
         IN  /\ IF ~r.xff.present \/ LeftMostTrimmed(r.xff.text, << >>)
                THEN r.key = <<117, 110, 107, 110, 111, 119, 110>>
                ELSE r.key # << >> /\ LeftMostTrimmed(r.xff.text, r.key)
             /\ DOMAIN new = DOMAIN old \cup {r.key}
             /\ \A k \in DOMAIN old : k # r.key => new[k] = old[k]
             /\ (Has(old, r.key) /\ ~(now > old[r.key].resetAt)) =>
                  new[r.key].count = old[r.key].count + 1]_vars

\* a request whose chain starts with an empty element is the second one counted
\* on the entry of "unknown", the only entry of the store
C16_Witness ==
  \E p \in Procs :
    /\ req[p].pc = "fetch" /\ req[p].callNo = 2
    /\ req[p].xff = Header(<<44, 51>>)
    /\ req[p].key = Unknown
    /\ rateMap[req[p].endpoint][Unknown].count = 2
    /\ DOMAIN rateMap[req[p].endpoint] = {Unknown}

\* lower-case form of a character; a lower-case letter or a digit
Fold(c) == IF c \in 65 .. 90 THEN c + 32 ELSE c

IsAlnum(c) == c \in 97 .. 122 \/ c \in 48 .. 57

\* the alphanumeric characters of hint from position i on, lowercased, with one
\* hyphen wherever other characters lie between two of them (prev is the
\* position of the alphanumeric character before, 0 when there is none)
RECURSIVE Joined(_, _, _)
Joined(hint, i, prev) ==
  IF i > Len(hint) THEN << >>
  ELSE IF ~IsAlnum(Fold(hint[i])) THEN Joined(hint, i + 1, prev)
  ELSE (IF prev > 0 /\ i > prev + 1 THEN <<45>> ELSE << >>)
         \o <<Fold(hint[i])>> \o Joined(hint, i + 1, i)

\* the archive endpoint served the request of p
Archived(p) ==
  req[p].endpoint = "zip" /\ req[p].pc = "done" /\ req[p].status = 200

\* C17: for every display-name hint, the archive endpoint's filename is
\* sanitizedName + "-" + id + ".zip", where sanitizedName is the hint
\* lowercased with every run of non-alphanumeric characters replaced by one
\* hyphen and all leading and trailing hyphens removed; when sanitizedName is
\* empty (empty, white-space-only or symbol-only hint) the filename is
\* id + ".zip" with no leading hyphen.
C17_DownloadFilename ==
  \A p \in Procs :
    Archived(p) =>
      LET sanitizedName == Joined(req[p].name, 1, 0)
      IN  /\ req[p].filename =
                IF sanitizedName = << >> THEN req[p].id \o <<46, 122, 105, 112>>
                ELSE sanitizedName \o <<45>> \o req[p].id \o <<46, 122, 105, 112>>
          /\ req[p].filename[1] # 45
          /\ (\A i \in 1 .. Len(req[p].name) : ~IsAlnum(Fold(req[p].name[i]))) =>
                req[p].filename = req[p].id \o <<46, 122, 105, 112>>

\* "My Cool!! Extension--Name" is served as "my-cool-extension-name-" id ".zip"
C17_Witness ==
  \E p \in Procs :
    /\ Archived(p)
    /\ req[p].name = <<77, 121, 32, 67, 111, 111, 108, 33, 33, 32, 69, 120, 116, 101, 110, 115, 105, 111, 110, 45, 45, 78, 97, 109, 101>>
    /\ req[p].filename =
         <<109, 121, 45, 99, 111, 111, 108, 45, 101, 120, 116, 101, 110, 115, 105, 111, 110, 45, 110, 97, 109, 101, 45>>
           \o req[p].id \o <<46, 122, 105, 112>>

\* the sweep of endpoint e's module runs in this step
Sweeps(e) == sweepAt'[e] # sweepAt[e]

\* C18: for every interleaving of concurrent request handlers (which suspend
\* at their await points) and the background sweep, each rate-limit
\* check-and-record on a key is atomic: no increment is lost (a live entry
\* counts every check of its window), at most 5 requests per key are allowed in
\* one window of a store, the check touches neither the request of the other
\* handler nor the clock, and the sweep never removes an entry that a request
\* has just (re)initialized for the current window.
C18_NoLostIncrement ==
  /\ [](\A e \in Endpoints : \A k \in DOMAIN win[e] :
          /\ win[e][k].ok <= RATE_LIMIT
          /\ win[e][k].ok = Min(win[e][k].n, RATE_LIMIT)
          /\ Has(rateMap[e], k) => rateMap[e][k].count = win[e][k].n)
  /\ [][/\ \A p \in Procs :
             Checks(p) =>
               LET e == req'[p].endpoint
                   k == req'[p].key
               IN  /\ rateMap'[e][k].count =
                        IF Has(rateMap[e], k) /\ ~(now > rateMap[e][k].resetAt)
                        THEN rateMap[e][k].count + 1 ELSE 1
                   /\ req'[p].url.issued <=> rateMap'[e][k].count <= RATE_LIMIT
                   /\ \A q \in Procs \ {p} : req'[q] = req[q]
                   /\ now' = now
        /\ \A e \in Endpoints :
             Sweeps(e) =>
               \A k \in DOMAIN rateMap[e] :
                 rateMap[e][k].resetAt = now + RATE_WINDOW_MS =>
                   Has(rateMap'[e], k) /\ rateMap'[e][k] = rateMap[e][k]]_vars

\* the fifth request of a window is suspended at its body read while the sixth,
\* handled by the other instance at the same endpoint, has been denied
C18_Witness ==
  /\ req["p1"].endpoint = "zip" /\ req["p2"].endpoint = "zip"
  /\ req["p1"].key = req["p2"].key
  /\ req["p1"].pc = "body" /\ req["p1"].callNo = RATE_LIMIT
  /\ Throttled(req["p2"]) /\ req["p2"].callNo = RATE_LIMIT + 1
  /\ rateMap["zip"][req["p1"].key].count = RATE_LIMIT + 1

\* C19: each run of the background sweep at time now deletes every entry with
\* now > resetAt and leaves every entry with now <= resetAt present with its
\* count and resetAt unchanged (it adds no entry and leaves the other module's
\* store alone); right after a sweep the store holds no expired entry.
C19_SweepExact ==
  [][\A e \in Endpoints :
       Sweeps(e) =>
         /\ \A k \in DOMAIN rateMap[e] :
              IF now > rateMap[e][k].resetAt
              THEN ~Has(rateMap'[e], k)
              ELSE Has(rateMap'[e], k) /\ rateMap'[e][k] = rateMap[e][k]
         /\ DOMAIN rateMap'[e] \subseteq DOMAIN rateMap[e]
         /\ \A k \in DOMAIN rateMap'[e] : now' <= rateMap'[e][k].resetAt
         /\ \A o \in Endpoints \ {e} : rateMap'[o] = rateMap[o]]_vars

\* a sweep has just removed the expired entry of a key at one endpoint and the
\* other endpoint's store still holds a live entry
C19_Witness ==
  \E e \in Endpoints : \E k \in DOMAIN win[e] :
    /\ sweepAt[e] = now + RATE_WINDOW_MS
    /\ ~Has(rateMap[e], k) /\ now > win[e][k].open + RATE_WINDOW_MS
    /\ \E o \in Endpoints \ {e} : \E j \in DOMAIN rateMap[o] :
         now <= rateMap[o][j].resetAt

\* C22: a rate-limit call for a key whose entry is still live (now <= resetAt)
\* increases that entry's count by exactly 1 and leaves its resetAt unchanged,
\* whether the call is allowed or denied; resetAt changes only when the entry
\* is created or reinitialized, where it becomes now + 60 s with count 1; and
\* no call changes the entry of any other key (or the other module's store).
C22_LiveEntryFrame ==
  [][\A e \in Endpoints :
       LET old == rateMap[e]
           new == rateMap'[e]
       IN  /\ \A p \in Procs :
                (Checks(p) /\ req'[p].endpoint = e) =>
                  LET k == req'[p].key
                  IN  /\ Has(new, k)
                      /\ IF Has(old, k) /\ now <= old[k].resetAt
                         THEN /\ new[k].count = old[k].count + 1
                              /\ new[k].resetAt = old[k].resetAt
                         ELSE /\ new[k].count = 1
                              /\ new[k].resetAt = now + 60 * 1000
                              /\ ~Throttled(req'[p])
                      /\ DOMAIN new = DOMAIN old \cup {k}
                      /\ \A j \in DOMAIN old \ {k} : new[j] = old[j]
                      /\ \A o \in Endpoints \ {e} : rateMap'[o] = rateMap[o]
           /\ \A k \in DOMAIN old \cap DOMAIN new :
                new[k].resetAt # old[k].resetAt =>
                  /\ now > old[k].resetAt
                  /\ new[k] = [count |-> 1, resetAt |-> now + 60 * 1000]
                  /\ \E p \in Procs :
                       Checks(p) /\ req'[p].endpoint = e /\ req'[p].key = k]_vars

\* a call in the last instant of its key's window has been denied and counted,
\* the window's end is where it was, and the other key's entry is as it was
C22_Witness ==
  \E p \in Procs : \E j \in DOMAIN rateMap["zip"] :
    /\ Throttled(req[p]) /\ req[p].endpoint = "zip" /\ req[p].key # j
    /\ now = RATE_WINDOW_MS
    /\ rateMap["zip"][req[p].key] = [count |-> RATE_LIMIT + 1, resetAt |-> now]
    /\ rateMap["zip"][j] = [count |-> 1, resetAt |-> RATE_WINDOW_MS]

\* C23: for every sequence of timestamped requests, the allow/deny decisions of
\* the rate limiter are the same whether the background sweep runs at
\* arbitrary moments between requests or never runs: each check decides as
\* isRateLimited would on the store no sweep has touched, because the entries
\* the swept store lacks are ones the next request for their key would have
\* reinitialized anyway (the never-swept store holds them expired), and every
\* other entry is the same in both.
C23_SweepInvisible ==
  /\ [](\A e \in Endpoints : \A k \in DOMAIN unswept[e] :
          IF Has(rateMap[e], k)
          THEN rateMap[e][k] = unswept[e][k]
          ELSE now > unswept[e][k].resetAt)
  /\ [](\A e \in Endpoints : DOMAIN rateMap[e] \subseteq DOMAIN unswept[e])
  /\ [][\A p \in Procs :
          Checks(p) =>
            LET e == req'[p].endpoint
                k == req'[p].key
            IN  /\ Throttled(req'[p]) <=> isRateLimited(unswept[e], k, now).limited
                /\ req'[p].url.issued <=> ~isRateLimited(unswept[e], k, now).limited
                /\ rateMap'[e][k] = unswept'[e][k]]_vars

\* a request is about to be checked at an endpoint whose sweep has removed an
\* entry that the never-swept store still holds, with more than 5 calls counted
C23_Witness ==
  \E p \in Procs : \E e \in Endpoints :
    /\ req[p].pc = "params" /\ req[p].endpoint = e
    /\ \E k \in DOMAIN unswept[e] :
         ~Has(rateMap[e], k) /\ unswept[e][k].count > RATE_LIMIT

----------------------------------------------------------------------------
(* Claims about stripCrxHeader, checked under SpecParser *)

Parsed == presult # Pending

ReturnsPayloadAt(off) ==
  /\ presult.kind = "view"
  /\ presult.offset = off
  /\ SameBytes(presult.data, pin.payload)

\* C8 as stated: for every header length and every payload, stripCrxHeader of
\* the V3 container returns exactly the payload, the suffix at 12 + headerLen.
C8_V3RoundTripAnyPayload ==
  (Parsed /\ pin.kind = "v3" /\ pin.cut < 0) => ReturnsPayloadAt(12 + pin.a)

\* C8 amended: for every header length and every payload of at least one byte,
\* stripCrxHeader of the V3 container returns exactly the payload, the suffix
\* at 12 + headerLen; for the empty payload it returns the failure value.
C8_V3RoundTrip ==
  (Parsed /\ pin.kind = "v3" /\ pin.cut < 0) =>
    IF pin.payload.len > 0
    THEN ReturnsPayloadAt(12 + pin.a)
    ELSE presult = Null

C8_Witness ==
  /\ Parsed /\ pin.kind = "v3" /\ pin.cut < 0
  /\ pin.a = 4096 /\ pin.payload.len = 600
  /\ presult.kind = "view" /\ presult.offset = 4108

\* C9 as stated: for every (pkLen, sigLen) and every payload, stripCrxHeader of
\* the V2 container returns exactly the payload, the suffix at 16 + pkLen + sigLen.
C9_V2RoundTripAnyPayload ==
  (Parsed /\ pin.kind = "v2" /\ pin.cut < 0) => ReturnsPayloadAt(16 + pin.a + pin.b)

\* C9 amended: for every (pkLen, sigLen), zero lengths included, and every
\* payload of at least one byte, stripCrxHeader of the V2 container returns
\* exactly the payload, the suffix at 16 + pkLen + sigLen; for the empty
\* payload it returns the failure value.
C9_V2RoundTrip ==
  (Parsed /\ pin.kind = "v2" /\ pin.cut < 0) =>
    IF pin.payload.len > 0
    THEN ReturnsPayloadAt(16 + pin.a + pin.b)
    ELSE presult = Null

C9_Witness ==
  /\ Parsed /\ pin.kind = "v2" /\ pin.cut < 0
  /\ pin.a = 16 /\ pin.b = 300 /\ pin.payload = Lit(ZipMagic)
  /\ presult.kind = "view" /\ presult.offset = 332

\* C10: for every input buffer, stripCrxHeader returns a sub-range of the input
\* or the failure value; it never reads a field outside the buffer and never
\* raises an exception.
C10_ParserNeverThrows ==
  Parsed =>
    \/ presult = Null
    \/ /\ presult.kind = "view"
       /\ presult.offset < pbuf.len
       /\ presult.data = subarray(pbuf, presult.offset)

\* the archive offset the header of a version 3 or version 2 input declares,
\* and the number of bytes its magic, version and length fields take
DeclaredOffset == IF pin.kind = "v3" THEN 12 + pin.a ELSE 16 + pin.a + pin.b

FieldsEnd == IF pin.kind = "v3" THEN 12 ELSE 16

\* C20: when the input starts with the magic and has version 2 or 3,
\* stripCrxHeader returns the sub-range from the computed archive offset to the
\* end whenever that offset is within the buffer's bounds (offset <
\* byteLength), and fails only when the offset lies outside them; where the
\* buffer ends before the length fields no sub-range is returned either.  With
\* the magic present and any other version value it fails, without falling
\* back to the signature scan.
C20_BoundsRule ==
  /\ (Parsed /\ pin.kind \in {"v3", "v2"} /\ pbuf.len >= FieldsEnd) =>
       IF DeclaredOffset < pbuf.len
       THEN /\ presult.kind = "view"
            /\ presult.offset = DeclaredOffset
            /\ presult.data.len = pbuf.len - DeclaredOffset
            /\ \A i \in 0 .. (Min(presult.data.len, 8) - 1) :
                 At(presult.data, i) = At(pbuf, DeclaredOffset + i)
       ELSE presult = Null
  /\ (Parsed /\ pin.kind \in {"v3", "v2"} /\ pbuf.len \in 4 .. (FieldsEnd - 1)) =>
       presult.kind # "view"
  /\ (Parsed /\ pin.kind = "ver") => presult = Null

\* a version 3 input cut right where its archive would start: the offset equals
\* the length and the parser fails
C20_Witness ==
  /\ Parsed /\ pin.kind = "v3" /\ pin.a = 1 /\ pin.cut = 13
  /\ pbuf.len = 13 /\ DeclaredOffset = 13
  /\ presult = Null

\* the input buffer starts with the bytes 43 72 32 34
StartsWithMagic ==
  pbuf.len >= 4 /\ At(pbuf, 0) = 67 /\ At(pbuf, 1) = 114
    /\ At(pbuf, 2) = 50 /\ At(pbuf, 3) = 52

\* the signature 50 4B 03 04 occurs at offset o of the input buffer
SignatureAt(o) ==
  o + 3 < pbuf.len /\ At(pbuf, o) = 80 /\ At(pbuf, o + 1) = 75
    /\ At(pbuf, o + 2) = 3 /\ At(pbuf, o + 3) = 4

\* C21: for every input that does not start with the magic, stripCrxHeader
\* returns the suffix starting at the lowest offset at which the signature
\* 50 4B 03 04 occurs within the first 1024 bytes (the offset is below 1024;
\* e.g. offset 37), and fails when no signature occurs at any offset below
\* 1024, even if one occurs later in the buffer.
C21_FallbackScan ==
  (Parsed /\ ~StartsWithMagic) =>
    IF \E o \in 0 .. 1023 : SignatureAt(o)
    THEN /\ presult.kind = "view"
         /\ presult.offset \in 0 .. 1023
         /\ SignatureAt(presult.offset)
         /\ \A o \in 0 .. (presult.offset - 1) : ~SignatureAt(o)
         /\ presult.data.len = pbuf.len - presult.offset
         /\ \A i \in 0 .. (Min(presult.data.len, 12) - 1) :
              At(presult.data, i) = At(pbuf, presult.offset + i)
    ELSE presult = Null

\* 37 bytes, then an archive that holds the signature twice: the suffix at 37
C21_Witness ==
  /\ Parsed /\ ~StartsWithMagic /\ pin.kind = "bare" /\ pin.a = 37
  /\ SignatureAt(37) /\ SignatureAt(42)
  /\ presult.kind = "view" /\ presult.offset = 37 /\ presult.data.len = 9

====
